---- MODULE Spec2Model ----
(***************************************************************************)
(* The freeing-bump heap allocator of runtime/allocator.go as a state      *)
(* machine.  One action per exported operation (allocate, deallocate);     *)
(* newAllocator builds the initial state.                                  *)
(*                                                                         *)
(* Representation of uint32.  A uint32 value u is held as the integer of   *)
(* [-2^31, 2^31) that is congruent to u modulo 2^32 (its two's-complement  *)
(* reading): values below 2^31 are themselves, 2^32 - k is -k.  Add32 and  *)
(* Sub32 are exact addition and subtraction modulo 2^32 on that            *)
(* representation, ULt/ULe/UGt are the unsigned comparisons.               *)
(*                                                                         *)
(* The heap (wasm linear memory) is zero-initialised; `heap` records the   *)
(* bytes written so far and every other byte reads as 0.                   *)
(*                                                                         *)
(* A Go run-time panic (slice or array index out of range) ends the        *)
(* program: `panicked` becomes TRUE with whatever had been written before  *)
(* the faulting statement, and no further call is made.                    *)
(*                                                                         *)
(* Spec and SpecAny run an allocator on small memories and on one of 257   *)
(* pages.  SpecWrap and SpecLap run it on a memory of 65408 pages, where   *)
(* the 32-bit sums of allocate reach 2^32.  SpecSizeClass and SpecMedian   *)
(* apply the size-class functions and babe's median to single inputs.      *)
(***************************************************************************)
EXTENDS Integers, Sequences, FiniteSets, TLC

\* ---------------------------------------------------------------- constants

ALIGNMENT == 8

N == 22

MAX_POSSIBLE_ALLOCATION == 16777216

\* ------------------------------------------------------------------- bounds

\* calls made on one allocator
MaxCalls == 5

\* deallocate calls on a pointer that is not live (SpecAny only)
MaxWild == 1

\* mem.Length() of the memories an allocator is built on
MemLengths == {64, 1024, 16842752}

\* ptr_offset arguments of newAllocator
Offsets == {0, 3, 16}

\* size arguments of allocate
AllocSizes == {4, 9, 32, MAX_POSSIBLE_ALLOCATION + 1}

\* size arguments of allocate on a memory of 257 pages
BigAllocSizes == {40000, MAX_POSSIBLE_ALLOCATION, MAX_POSSIBLE_ALLOCATION + 1}

\* the sizes asked of an allocator on a memory of len bytes
SizesFor(len) == IF len < 65536 THEN AllocSizes ELSE BigAllocSizes

\* pointer arguments of deallocate that the caller may make up
WildPointers == {0, 4, 8, 9, 20, 24, 70}

\* ------------------------------------------------------------ uint32 values

MaxInt32 == 2147483647

MinInt32 == (-2147483647) - 1

Add32(a, b) ==
    IF a >= 0 /\ b >= 0 /\ a > MaxInt32 - b
    THEN ((a + MinInt32) + b) + MinInt32
    ELSE IF a < 0 /\ b < 0 /\ a < MinInt32 - b
    THEN ((a - MinInt32) + b) - MinInt32
    ELSE a + b

Neg32(b) == IF b = MinInt32 THEN MinInt32 ELSE 0 - b

Sub32(a, b) == Add32(a, Neg32(b))

ULt(a, b) == IF (a >= 0) = (b >= 0) THEN a < b ELSE a >= 0

UGt(a, b) == ULt(b, a)

\* v % ALIGNMENT on a uint32: 2^32 is a multiple of 8
Mod8(v) == v % ALIGNMENT

\* ------------------------------------------------------ size-class functions

RECURSIVE BitOr(_, _)
BitOr(a, b) ==
    IF a = 0 THEN b
    ELSE IF b = 0 THEN a
    ELSE (IF a % 2 = 1 \/ b % 2 = 1 THEN 1 ELSE 0) + 2 * BitOr(a \div 2, b \div 2)

Shr(v, k) == v \div (2 ^ k)

\* v |= v >> k
Smear(v, k) == BitOr(v, Shr(v, k))

\* the decrement before the smear left out
nextPowerOf2GT8_NoDecrement(v) ==
    IF v < 8 THEN 8
    ELSE Smear(Smear(Smear(Smear(Smear(v, 1), 2), 4), 8), 16) + 1

nextPowerOf2GT8(v) ==
    IF v < 8 THEN 8
    ELSE Smear(Smear(Smear(Smear(Smear(v - 1, 1), 2), 4), 8), 16) + 1

RECURSIVE TrailingZeros32(_)
TrailingZeros32(x) ==
    IF x = 0 THEN 32
    ELSE IF x % 2 = 1 THEN 0
    ELSE 1 + TrailingZeros32(x \div 2)

get_item_size_from_index(index) == (2 ^ 3) * (2 ^ index)

\* ------------------------------------------------------------ heap accessors

VARIABLES
    bumper,         \* fbha.bumper
    heads,          \* fbha.heads
    heap,           \* fbha.heap.Data(), the bytes written so far
    heapLen,        \* fbha.heap.Length()
    max_heap_size,  \* fbha.max_heap_size
    ptr_offset,     \* fbha.ptr_offset
    total_size,     \* fbha.total_size
    panicked,       \* a call ended in a run-time panic
    req_offset,     \* the ptr_offset argument newAllocator was given
    live,           \* pointers returned by allocate and not deallocated -> size asked
    pre,            \* allocator fields as they were before the last call
    hist,           \* the calls made, oldest first
    wild,           \* deallocate calls made on pointers that were not live
    probe           \* one application of a pure function: its argument and result

vars == <<bumper, heads, heap, heapLen, max_heap_size, ptr_offset, total_size,
          panicked, req_offset, live, pre, hist, wild, probe>>

\* Data()[a] is in range: the index is a uint32
InBounds(len, a) == ULt(a, len)

\* Data()[lo:hi] is a valid slice expression: lo and hi are uint32
SliceOk(len, lo, hi) == ~ULt(hi, lo) /\ ~ULt(len, hi)

\* no byte written yet
NoBytes == [x \in {} |-> 0]

ReadByte(h, a) == IF a \in DOMAIN h THEN h[a] ELSE 0

WriteByte(h, a, v) == (a :> v) @@ h

\* binary.LittleEndian.PutUint32
PutUint32(v) == [k \in 0..3 |-> (v \div (256 ^ k)) % 256]

\* binary.LittleEndian.Uint32
Uint32(b) ==
    b[0] + 256 * b[1] + 65536 * b[2]
      + 16777216 * (IF b[3] >= 128 THEN b[3] - 256 ELSE b[3])

get_heap_4bytes(h, a) == [k \in 0..3 |-> ReadByte(h, a + k)]

set_heap_4bytes(h, a, b) == [x \in {a + k : k \in 0..3} |-> b[x - a]] @@ h

\* ------------------------------------------------------------- newAllocator

\* the offset used as passed, without the padding
newAllocator_NoPadding(len, off) ==
    [bumper        |-> 0,
     heads         |-> [i \in 0..(N - 1) |-> 0],
     max_heap_size |-> Sub32(len, off),
     ptr_offset    |-> off,
     total_size    |-> 0]

newAllocator(len, off) ==
    LET heap_size == Sub32(len, off)
        padding   == Mod8(off)
        aligned   == IF padding # 0 THEN Add32(off, ALIGNMENT - padding) ELSE off
    IN  [bumper        |-> 0,
         heads         |-> [i \in 0..(N - 1) |-> 0],
         max_heap_size |-> heap_size,
         ptr_offset    |-> aligned,
         total_size    |-> 0]

Fields == [bumper |-> bumper, heads |-> heads, heap |-> heap, total_size |-> total_size]

\* no pure function is being applied
NoProbe == [fn |-> "none"]

\* an allocator built on a memory of one of the lengths at one of the offsets
InitOn(lens, offs) ==
    /\ heapLen \in lens
    /\ req_offset \in {o \in offs : ~ULt(heapLen, o)}
    /\ LET a == newAllocator(heapLen, req_offset)
       IN  /\ bumper = a.bumper
           /\ heads = a.heads
           /\ max_heap_size = a.max_heap_size
           /\ ptr_offset = a.ptr_offset
           /\ total_size = a.total_size
    /\ heap = NoBytes
    /\ panicked = FALSE
    /\ live = NoBytes
    /\ pre = [bumper |-> 0, heads |-> [i \in 0..(N - 1) |-> 0], heap |-> NoBytes,
              total_size |-> 0]
    /\ hist = << >>
    /\ wild = 0

InitAllocator == InitOn(MemLengths, Offsets)

Init == InitAllocator /\ probe = NoProbe

\* ----------------------------------------------------------------- allocate

\* what a call leaves behind: its result and the allocator fields after it
Outcome(res, ptr, cls, b, hd, hp, ts) ==
    [res |-> res, ptr |-> ptr, cls |-> cls,
     bumper |-> b, heads |-> hd, heap |-> hp, total_size |-> ts]

\* fbha.bump(n): the cursor after the call (the call returns the cursor before it)
bump(b, n) == Add32(b, n)

\* address of set_heap(ptr - i, ...)
HeaderAddr(ptr, i) == Add32(ptr_offset, Sub32(ptr, i))

\* the first i of the header loop whose set_heap panics, 9 when none does
FirstBadHeaderWrite(ptr) ==
    LET bad == {i \in 1..8 : ~InBounds(heapLen, HeaderAddr(ptr, i))}
    IN  IF bad = {} THEN 9 ELSE CHOOSE i \in bad : \A j \in bad : i <= j

\* the heap after the header loop has run up to (not including) iteration stop
HeaderSentinels(h, ptr, stop) ==
    [x \in {HeaderAddr(ptr, i) : i \in 1..(stop - 1)} |-> 255] @@ h

AllocResult(size) ==
    IF size > MAX_POSSIBLE_ALLOCATION
    THEN Outcome("too_large", 0, -1, bumper, heads, heap, total_size)
    ELSE
    LET item_size == nextPowerOf2GT8(size)
    IN
    IF UGt(Add32(Add32(item_size, 8), total_size), max_heap_size)
    THEN Outcome("out_of_space", 0, -1, bumper, heads, heap, total_size)
    ELSE
    LET list_index == TrailingZeros32(item_size) - 3
        fromList   == heads[list_index] # 0
        item       == heads[list_index]
        lo         == Add32(ptr_offset, item)
        hi         == Add32(lo, 4)
    IN
    IF fromList /\ ~SliceOk(heapLen, lo, hi)
    THEN Outcome("panic", 0, list_index, bumper, heads, heap, total_size)
    ELSE
    LET heads1  == IF fromList
                   THEN [heads EXCEPT ![list_index] = Uint32(get_heap_4bytes(heap, lo))]
                   ELSE heads
        ptr     == IF fromList THEN Add32(item, 8) ELSE Add32(bumper, 8)
        bumper1 == IF fromList THEN bumper ELSE bump(bumper, Add32(item_size, 8))
        stop    == FirstBadHeaderWrite(ptr)
        heap1   == HeaderSentinels(heap, ptr, stop)
    IN
    IF stop <= 8
    THEN Outcome("panic", 0, list_index, bumper1, heads1, heap1, total_size)
    ELSE Outcome("ok", Add32(ptr_offset, ptr), list_index, bumper1, heads1,
                 WriteByte(heap1, HeaderAddr(ptr, 8), list_index),
                 Add32(Add32(total_size, item_size), 8))

\* the entry a call adds to the history
Call(op, arg, wasLive, r) ==
    [op |-> op, arg |-> arg, wasLive |-> wasLive, res |-> r.res, ptr |-> r.ptr,
     cls |-> r.cls, bumper0 |-> bumper, bumper |-> r.bumper,
     total_size |-> r.total_size, heads |-> r.heads]

Apply(op, arg, wasLive, r) ==
    /\ pre' = Fields
    /\ bumper' = r.bumper
    /\ heads' = r.heads
    /\ heap' = r.heap
    /\ total_size' = r.total_size
    /\ panicked' = (r.res = "panic")
    /\ hist' = Append(hist, Call(op, arg, wasLive, r))
    /\ UNCHANGED <<heapLen, max_heap_size, ptr_offset, req_offset, probe>>

AllocateCall(size) ==
    /\ ~panicked
    /\ LET r == AllocResult(size)
       IN  /\ Apply("allocate", size, FALSE, r)
           /\ live' = IF r.res = "ok" THEN (r.ptr :> size) @@ live ELSE live
    /\ UNCHANGED wild

Allocate(size) == Len(hist) < MaxCalls /\ AllocateCall(size)

\* --------------------------------------------------------------- deallocate

DeallocResult(pointer) ==
    LET ptr == Sub32(pointer, ptr_offset)
    IN
    IF ULt(ptr, 8)
    THEN Outcome("invalid_pointer", 0, -1, bumper, heads, heap, total_size)
    ELSE
    LET block == Sub32(ptr, 8)
        lo    == Add32(ptr_offset, block)
        hi    == Add32(lo, 4)
    IN
    IF ~InBounds(heapLen, lo)
    THEN Outcome("panic", 0, -1, bumper, heads, heap, total_size)
    ELSE
    LET list_index == ReadByte(heap, lo)
    IN
    IF list_index >= N
    THEN Outcome("panic", 0, list_index, bumper, heads, heap, total_size)
    ELSE
    LET tail   == heads[list_index]
        heads1 == [heads EXCEPT ![list_index] = block]
    IN
    IF ~SliceOk(heapLen, lo, hi)
    THEN Outcome("panic", 0, list_index, bumper, heads1, heap, total_size)
    ELSE Outcome("ok", 0, list_index, bumper, heads1,
                 set_heap_4bytes(heap, lo, PutUint32(tail)),
                 Sub32(total_size, get_item_size_from_index(list_index) + 8))

DeallocateCall(pointer) ==
    /\ ~panicked
    /\ LET r == DeallocResult(pointer)
       IN  /\ Apply("deallocate", pointer, pointer \in DOMAIN live, r)
           /\ live' = IF r.res = "ok"
                      THEN [p \in (DOMAIN live) \ {pointer} |-> live[p]]
                      ELSE live

Deallocate(pointer) == Len(hist) < MaxCalls /\ DeallocateCall(pointer)

\* a well-behaved caller releases only pointers it holds
DeallocateLive ==
    /\ \E p \in DOMAIN live : Deallocate(p)
    /\ UNCHANGED wild

\* any caller: the pointer is made up, or was released before
DeallocateWild ==
    /\ wild < MaxWild
    /\ \E p \in (WildPointers \cup {hist[i].ptr : i \in 1..Len(hist)}) \ DOMAIN live :
          Deallocate(p)
    /\ wild' = wild + 1

AllocateAny == \E size \in SizesFor(heapLen) : Allocate(size)

Next == AllocateAny \/ DeallocateLive

Spec == Init /\ [][Next]_vars

NextAny == AllocateAny \/ DeallocateLive \/ DeallocateWild

SpecAny == Init /\ [][NextAny]_vars

\* ------------------------------------------- a memory of nearly 4 GiB, filled

\* allocate(16 MiB) calls that open the run
FillCalls == 254

\* calls made after them
TailCalls == 4

\* Length() of a memory of 65408 pages, 2^32 - 128 * 65536, as a uint32
WrapLength == Neg32(128 * 65536)

\* size arguments of allocate after the opening run
TailSizes == {MAX_POSSIBLE_ALLOCATION \div 2, MAX_POSSIBLE_ALLOCATION}

InitWrap == InitOn({WrapLength}, {0}) /\ probe = NoProbe

FillAllocate ==
    /\ Len(hist) < FillCalls
    /\ AllocateCall(MAX_POSSIBLE_ALLOCATION)

InTail == Len(hist) >= FillCalls /\ Len(hist) < FillCalls + TailCalls

TailAllocate == InTail /\ \E size \in TailSizes : AllocateCall(size)

\* the caller releases a pointer it was given after the opening run
TailDeallocate ==
    /\ InTail
    /\ \E p \in {hist[i].ptr : i \in (FillCalls + 1)..Len(hist)} \cap DOMAIN live :
          DeallocateCall(p)
    /\ UNCHANGED wild

NextWrap == FillAllocate \/ TailAllocate \/ TailDeallocate

SpecWrap == InitWrap /\ [][NextWrap]_vars

\* ------------------------- the same memory, the cursor brought round to a block

\* the allocate(16 MiB) calls that take bytes_in_use and the cursor past 2^32
LapFill == FillCalls + 2

\* the sizes asked next: with their headers they take the cursor from 2048 to
\* 16 MiB + 8, where the block of the second call starts
LapSizes ==
    <<8388608, 4194304, 2097152, 1048576, 524288, 262144, 131072, 65536, 32768,
      16384, 8192, 4096, 1024, 512, 256, 64, 64>>

\* free calls made after them
LapTail == 2

\* size arguments of allocate in the free calls
LapTailSizes == {8, 64}

LapAllocate ==
    /\ Len(hist) < LapFill + Len(LapSizes)
    /\ AllocateCall(IF Len(hist) < LapFill THEN MAX_POSSIBLE_ALLOCATION
                    ELSE LapSizes[(Len(hist) - LapFill) + 1])

InLapTail ==
    /\ Len(hist) >= LapFill + Len(LapSizes)
    /\ Len(hist) < LapFill + Len(LapSizes) + LapTail

LapTailAllocate == InLapTail /\ \E size \in LapTailSizes : AllocateCall(size)

\* the caller releases a pointer it was given in the free calls
LapTailDeallocate ==
    /\ InLapTail
    /\ \E p \in {hist[i].ptr : i \in (LapFill + Len(LapSizes) + 1)..Len(hist)} \cap DOMAIN live :
          DeallocateCall(p)
    /\ UNCHANGED wild

NextLap == LapAllocate \/ LapTailAllocate \/ LapTailDeallocate

SpecLap == InitWrap /\ [][NextLap]_vars

\* ----------------------------------------------- the size-class computation

\* sizes 0..MaxProbe are all tried
MaxProbe == 300

\* the sizes tried: the small ones, and each power of two with its neighbours
SizeProbes ==
    (0..MaxProbe) \cup
    {s \in {(2 ^ k) + d : k \in 3..24, d \in {-1, 0, 1}} : s <= MAX_POSSIBLE_ALLOCATION}

\* the allocator is not called
AllocatorIdle ==
    UNCHANGED <<bumper, heads, heap, heapLen, max_heap_size, ptr_offset, total_size,
                panicked, req_offset, live, pre, hist, wild>>

InitSizeClass ==
    /\ InitAllocator
    /\ heapLen = 1024
    /\ req_offset = 0
    /\ probe \in {[fn |-> "size_class", arg |-> s, done |-> FALSE] : s \in SizeProbes}

\* item_size and list_index as allocate derives them from size, and the size
\* deallocate derives back from list_index
ApplySizeClass ==
    /\ probe.fn = "size_class"
    /\ ~probe.done
    /\ LET item_size  == nextPowerOf2GT8(probe.arg)
           list_index == TrailingZeros32(item_size) - 3
       IN  probe' = [fn |-> "size_class", arg |-> probe.arg, done |-> TRUE,
                     item_size |-> item_size, list_index |-> list_index,
                     class_size |-> get_item_size_from_index(list_index)]
    /\ AllocatorIdle

SpecSizeClass == InitSizeClass /\ [][ApplySizeClass]_vars

\* ------------------------------------------------------------------- median

\* longest list given to median
MaxLen == 4

\* largest arrival time in a list
MaxVal == 3

RECURSIVE SeqsUpTo(_)
SeqsUpTo(n) ==
    IF n = 0 THEN {<< >>}
    ELSE SeqsUpTo(n - 1) \cup [1..n -> 0..MaxVal]

\* x put in its place in the ascending list t
RECURSIVE InsertSorted(_, _)
InsertSorted(x, t) ==
    IF t = << >> THEN <<x>>
    ELSE IF x <= Head(t) THEN <<x>> \o t
    ELSE <<Head(t)>> \o InsertSorted(x, Tail(t))

\* sort.Slice(l, func(i, j int) bool { return l[i] < l[j] })
RECURSIVE SortSlice(_)
SortSlice(l) ==
    IF l = << >> THEN << >>
    ELSE InsertSorted(Head(l), SortSlice(Tail(l)))

\* l[i] of a Go slice (indices from 0)
At(l, i) == l[i + 1]

\* the arrival times in the lists are far below 2^63, so the uint64 sum is exact
median(l) ==
    LET sorted == SortSlice(l)
        m      == Len(l)
    IN  IF m = 0
        THEN [res |-> "error", med |-> 0, sorted |-> sorted]
        ELSE IF m % 2 = 0
        THEN IF (m \div 2) + 1 >= m
             THEN [res |-> "panic", med |-> 0, sorted |-> sorted]
             ELSE [res |-> "ok", sorted |-> sorted,
                   med |-> (At(sorted, (m \div 2) - 1) + At(sorted, (m \div 2) + 1)) \div 2]
        ELSE [res |-> "ok", sorted |-> sorted, med |-> At(sorted, m \div 2)]

InitMedian ==
    /\ InitAllocator
    /\ heapLen = 1024
    /\ req_offset = 0
    /\ probe \in {[fn |-> "median", arg |-> l, done |-> FALSE] : l \in SeqsUpTo(MaxLen)}

ApplyMedian ==
    /\ probe.fn = "median"
    /\ ~probe.done
    /\ LET r == median(probe.arg)
       IN  probe' = [fn |-> "median", arg |-> probe.arg, done |-> TRUE,
                     res |-> r.res, med |-> r.med, sorted |-> r.sorted]
    /\ AllocatorIdle

SpecMedian == InitMedian /\ [][ApplyMedian]_vars

\* ------------------------------------------------------------------- claims

\* the last call made
Last == hist[Len(hist)]

\* two heaps hold the same bytes
HeapEq(h1, h2) == \A a \in (DOMAIN h1) \cup (DOMAIN h2) : ReadByte(h1, a) = ReadByte(h2, a)

\* the last call left bumper, heads, total_size and every heap byte as they were
StateUntouched ==
    /\ bumper = pre.bumper
    /\ heads = pre.heads
    /\ total_size = pre.total_size
    /\ HeapEq(heap, pre.heap)

\* the last call left heads, total_size and every heap byte as they were
ListsUntouched ==
    /\ heads = pre.heads
    /\ total_size = pre.total_size
    /\ HeapEq(heap, pre.heap)

IsErrorValue(res) == res \in {"too_large", "out_of_space", "invalid_pointer"}

\* a uint32 in units of 8 bytes, rounded down
Words(u) == IF u >= 0 THEN u \div 8 ELSE (u \div 8) + 536870912

\* the 8-byte units a request of size bytes takes, header included
BlockWords(size) == (nextPowerOf2GT8(size) + 8) \div 8

\* call i is the allocate that returned a pointer that is live
GaveLive(i) ==
    /\ hist[i].op = "allocate" /\ hist[i].res = "ok"
    /\ hist[i].ptr \in DOMAIN live
    /\ \A j \in (i + 1)..Len(hist) :
          ~(hist[j].op = "allocate" /\ hist[j].res = "ok" /\ hist[j].ptr = hist[i].ptr)

\* the sum of round_up_to_class(s) + 8 over the live allocations that calls
\* lo..hi returned, in units of 8 bytes
RECURSIVE LiveWords(_, _)
LiveWords(lo, hi) ==
    IF lo > hi THEN 0
    ELSE IF lo = hi
    THEN IF GaveLive(lo) THEN BlockWords(live[hist[lo].ptr]) ELSE 0
    ELSE LiveWords(lo, (lo + hi) \div 2) + LiveWords(((lo + hi) \div 2) + 1, hi)

\* C1: every successful allocate(s) returns p with the header and the whole
\* block inside the heap: 0 <= p - 8 and p + round_up_to_class(s) <= heap length.
C1_BlockInsideHeap ==
    \A i \in 1..Len(hist) :
        (hist[i].op = "allocate" /\ hist[i].res = "ok")
            => /\ hist[i].ptr - 8 >= 0
               /\ hist[i].ptr + nextPowerOf2GT8(hist[i].arg) <= heapLen

\* C2: after deallocate(p) of a live pointer whose block is of class c, the next
\* successful allocate of class c (no other call on class c in between) returns
\* p again and leaves bumper unchanged.
C2_FreedBlockReused ==
    \A i \in 1..Len(hist) : \A j \in (i + 1)..Len(hist) :
        ( /\ hist[i].op = "deallocate" /\ hist[i].res = "ok" /\ hist[i].wasLive
          /\ hist[j].op = "allocate" /\ hist[j].res = "ok" /\ hist[j].cls = hist[i].cls
          /\ \A k \in (i + 1)..(j - 1) : ~(hist[k].res = "ok" /\ hist[k].cls = hist[i].cls) )
            => /\ hist[j].ptr = hist[i].arg
               /\ hist[j].bumper = hist[j].bumper0

\* the calls so far are p = allocate(s); deallocate(p) repeated with one size s
Churn ==
    /\ Len(hist) >= 1
    /\ \A i \in 1..Len(hist) :
          /\ hist[i].res = "ok"
          /\ IF i % 2 = 1
             THEN hist[i].op = "allocate" /\ hist[i].arg = hist[1].arg
             ELSE hist[i].op = "deallocate" /\ hist[i].arg = hist[i - 1].ptr

\* C2 holds of every block but the first one carved: a freed block whose
\* block_start is not 0 is handed out again before the cursor moves.
C2_ReusedUnlessFirstBlock ==
    \A i \in 1..Len(hist) : \A j \in (i + 1)..Len(hist) :
        ( /\ hist[i].op = "deallocate" /\ hist[i].res = "ok" /\ hist[i].wasLive
          /\ hist[i].arg # ptr_offset + 8
          /\ hist[j].op = "allocate" /\ hist[j].res = "ok" /\ hist[j].cls = hist[i].cls
          /\ \A k \in (i + 1)..(j - 1) : ~(hist[k].res = "ok" /\ hist[k].cls = hist[i].cls) )
            => /\ hist[j].ptr = hist[i].arg
               /\ hist[j].bumper = hist[j].bumper0

\* C3: while the calls are allocate(s)/deallocate cycles of one size on a fresh
\* allocator, bumper stays at round_up_to_class(s) + 8.
C3_ChurnKeepsBumper ==
    Churn => bumper = nextPowerOf2GT8(hist[1].arg) + 8

ScenarioCalls ==
    << [op |-> "allocate", arg |-> 4], [op |-> "allocate", arg |-> 4],
       [op |-> "deallocate", arg |-> 8], [op |-> "allocate", arg |-> 4] >>

InScenario ==
    /\ heapLen = 1024
    /\ req_offset = 0
    /\ Len(hist) <= Len(ScenarioCalls)
    /\ \A i \in 1..Len(hist) :
          hist[i].op = ScenarioCalls[i].op /\ hist[i].arg = ScenarioCalls[i].arg

\* C4: on 1024 usable bytes at base offset 0, allocate(4) returns 8 with
\* bytes_in_use 16, allocate(4) returns 24 with 32, deallocate(8) sets
\* free_list_heads[0] = 0 with 16, allocate(4) returns 8 again with 32.
C4_Scenario ==
    InScenario =>
        /\ max_heap_size = 1024
        /\ Len(hist) >= 1 =>
              hist[1].res = "ok" /\ hist[1].ptr = 8 /\ hist[1].total_size = 16
        /\ Len(hist) >= 2 =>
              hist[2].res = "ok" /\ hist[2].ptr = 24 /\ hist[2].total_size = 32
        /\ Len(hist) >= 3 =>
              hist[3].res = "ok" /\ hist[3].heads[0] = 0 /\ hist[3].total_size = 16
        /\ Len(hist) >= 4 =>
              hist[4].res = "ok" /\ hist[4].ptr = 8 /\ hist[4].total_size = 32

\* C5: a call that does not succeed leaves bumper, every free-list head,
\* bytes_in_use and every heap byte as before; no call ends partially updated.
C5_FailureLeavesState ==
    (Len(hist) >= 1 /\ Last.res # "ok") => StateUntouched

\* the part of C5 about error returns alone: an allocate that returns an error
\* value has changed nothing
C5_ErrorReturnLeavesState ==
    (Len(hist) >= 1 /\ Last.op = "allocate" /\ IsErrorValue(Last.res)) => StateUntouched

\* C6: deallocate(pointer) with pointer < base_offset + 8 returns the
\* invalid-pointer error and leaves heads, bytes_in_use and the heap unchanged.
C6_LowPointerRejected ==
    (Len(hist) >= 1 /\ Last.op = "deallocate" /\ Last.arg < ptr_offset + 8)
        => Last.res = "invalid_pointer" /\ ListsUntouched

\* the state part of C6 alone: such a deallocate changes no list, counter or byte
C6_LowPointerLeavesLists ==
    (Len(hist) >= 1 /\ Last.op = "deallocate" /\ Last.arg < ptr_offset + 8)
        => ListsUntouched

\* C7: bytes_in_use is the sum of round_up_to_class(s) + 8 over the live
\* allocations, and 0 when none is live.
C7_BytesInUseIsLiveSum ==
    /\ total_size % 8 = 0
    /\ Words(total_size) = LiveWords(1, Len(hist))
    /\ (DOMAIN live = {}) => total_size = 0

\* C8: deallocate of a pointer that is not live returns an error value and
\* leaves heads, bytes_in_use and the heap unchanged.
C8_DeadPointerRejected ==
    (Len(hist) >= 1 /\ Last.op = "deallocate" /\ ~Last.wasLive)
        => IsErrorValue(Last.res) /\ ListsUntouched

\* the double-free case of C8 alone: a second deallocate of a pointer does not
\* succeed and changes nothing
C8_DoubleFreeRejected ==
    ( /\ Len(hist) >= 1 /\ Last.op = "deallocate" /\ ~Last.wasLive
      /\ \E i \in 1..(Len(hist) - 1) :
            hist[i].op = "deallocate" /\ hist[i].arg = Last.arg /\ hist[i].wasLive )
        => Last.res # "ok" /\ ListsUntouched

\* the size-class byte the last deallocate read from the block header
HeaderByteRead == ReadByte(pre.heap, Last.arg - 8)

\* C9: a deallocate that reads a size-class byte >= N returns an error value,
\* does not index heads with it and changes nothing.
C9_HeaderByteValidated ==
    ( /\ Len(hist) >= 1 /\ Last.op = "deallocate"
      /\ Last.arg >= ptr_offset + 8 /\ Last.arg - 8 < heapLen
      /\ HeaderByteRead >= N )
        => IsErrorValue(Last.res) /\ StateUntouched

\* the smallest multiple of 8 that is >= off
AlignUp(off) == ((off + 7) \div 8) * 8

\* C10: base_offset is the requested offset aligned up to 8, usable_size is the
\* buffer length minus that aligned offset, and their sum is within the buffer.
C10_ConstructionFitsBuffer ==
    /\ ptr_offset = AlignUp(req_offset)
    /\ max_heap_size = heapLen - AlignUp(req_offset)
    /\ ptr_offset + max_heap_size <= heapLen

\* C11: allocate fails with the too-large error for every size above 16 MiB, and
\* allocate(16 MiB) succeeds whenever bytes_in_use + 16 MiB + 8 <= usable_size,
\* in size class 21.
C11_LargestAllocation ==
    (Len(hist) >= 1 /\ Last.op = "allocate") =>
        /\ Last.arg > MAX_POSSIBLE_ALLOCATION => Last.res = "too_large"
        /\ ( /\ Last.arg = MAX_POSSIBLE_ALLOCATION
             /\ pre.total_size + MAX_POSSIBLE_ALLOCATION + 8 <= max_heap_size )
              => Last.res = "ok" /\ Last.cls = N - 1

\* the parts of C11 that hold: sizes above 16 MiB are refused, and a 16 MiB
\* request that is admitted is of class 21 and returns an error only for space
C11_LargestAllocationUnlessPanic ==
    (Len(hist) >= 1 /\ Last.op = "allocate") =>
        /\ Last.arg > MAX_POSSIBLE_ALLOCATION => Last.res = "too_large"
        /\ Last.arg = MAX_POSSIBLE_ALLOCATION =>
              /\ Last.res \in {"ok", "panic", "out_of_space"}
              /\ Last.res = "out_of_space"
                    <=> pre.total_size + MAX_POSSIBLE_ALLOCATION + 8 > max_heap_size
              /\ Last.res = "ok" => Last.cls = N - 1

\* only allocate was called, with sizes up to 16 MiB
AllocateOnly ==
    \A i \in 1..Len(hist) :
        hist[i].op = "allocate" /\ hist[i].arg <= MAX_POSSIBLE_ALLOCATION

\* the 8-byte units calls lo..hi ask for, headers included
RECURSIVE AskedWords(_, _)
AskedWords(lo, hi) ==
    IF lo > hi THEN 0
    ELSE IF lo = hi THEN BlockWords(hist[lo].arg)
    ELSE AskedWords(lo, (lo + hi) \div 2) + AskedWords(((lo + hi) \div 2) + 1, hi)

\* C12: in a sequence of allocate calls on a fresh allocator, a call made when
\* the sum of round_up_to_class(s_i) + 8 over the earlier calls has not exceeded
\* usable_size returns the out-of-space error if that sum plus
\* round_up_to_class(s) + 8 exceeds usable_size, and succeeds if it does not.
C12_ExhaustionOnCrossingCall ==
    LET n      == Len(hist)
        before == AskedWords(1, n - 1)
    IN  (AllocateOnly /\ n >= 1 /\ before <= Words(max_heap_size)) =>
            IF before + BlockWords(Last.arg) > Words(max_heap_size)
            THEN Last.res = "out_of_space"
            ELSE Last.res = "ok"

\* the allocate of call i took its block from a free list
FromList(i) ==
    hist[i].op = "allocate" /\ hist[i].res = "ok" /\ hist[i].bumper = hist[i].bumper0

\* the allocate of call i carved its block with the bump cursor
FromBump(i) ==
    hist[i].op = "allocate" /\ hist[i].res = "ok" /\ hist[i].bumper # hist[i].bumper0

\* C13: every pointer a successful allocate returns is a multiple of 8.
C13_PointerAligned ==
    \A i \in 1..Len(hist) :
        (hist[i].op = "allocate" /\ hist[i].res = "ok") => hist[i].ptr % 8 = 0

C13_Witness ==
    /\ req_offset % 8 # 0
    /\ \E i \in 1..Len(hist) : FromList(i)
    /\ \E i \in 1..Len(hist) : FromBump(i)

\* C14: an allocate that would advance bumper beyond usable_size fails, so
\* bumper <= usable_size in every reachable state.
C14_BumperWithinUsable == ~UGt(bumper, max_heap_size)

\* C15: bytes_in_use <= usable_size in every reachable state, as uint32 values.
C15_BytesInUseWithinUsable == ~UGt(total_size, max_heap_size)

\* the size class of a request of size bytes
ClassOf(size) == TrailingZeros32(nextPowerOf2GT8(size)) - 3

\* the allocation call i returned has not been released: no deallocate of its
\* pointer has succeeded since
InForce(i) ==
    /\ hist[i].op = "allocate" /\ hist[i].res = "ok"
    /\ \A j \in (i + 1)..Len(hist) :
          ~(hist[j].op = "deallocate" /\ hist[j].res = "ok" /\ hist[j].arg = hist[i].ptr)

\* C16: for every live allocation with pointer p and size class i, heap byte
\* p - 8 is i and heap bytes p - 7 .. p - 1 are the sentinel 255.
C16_LiveHeaderIntact ==
    \A i \in 1..Len(hist) :
        InForce(i) =>
            /\ ReadByte(heap, Sub32(hist[i].ptr, 8)) = ClassOf(hist[i].arg)
            /\ \A k \in 1..7 : ReadByte(heap, Sub32(hist[i].ptr, k)) = 255

\* the 8-byte units [first, last) of the block of live pointer p, header included
FirstWord(p) == Words(Sub32(p, 8))

EndWord(p) == Words(p) + (nextPowerOf2GT8(live[p]) \div 8)

\* heap byte a lies in the block of live pointer p
InBlock(a, p) == Words(a) >= FirstWord(p) /\ Words(a) < EndWord(p)

\* the blocks of live pointers p and q share no byte
Disjoint(p, q) == EndWord(p) <= FirstWord(q) \/ EndWord(q) <= FirstWord(p)

\* the heap bytes the last call changed
Changed == {a \in (DOMAIN heap) \cup (DOMAIN pre.heap) : ReadByte(heap, a) # ReadByte(pre.heap, a)}

\* C18: the byte range [p - 8, p + block_size) of the allocation the last
\* allocate returned is disjoint from that of every other live allocation, and
\* the last call changed no byte of a live block other than the one it returned.
C18_LiveBlocksDisjoint ==
    Len(hist) >= 1 =>
        /\ (Last.op = "allocate" /\ Last.res = "ok") =>
              \A q \in (DOMAIN live) \ {Last.ptr} : Disjoint(Last.ptr, q)
        /\ \A a \in Changed : \A q \in (DOMAIN live) \ {Last.ptr} : ~InBlock(a, q)

\* the blocks on the free list that starts at block offset b, nearest first,
\* followed for at most fuel links; <<-1>> at the end when 0 was not reached
RECURSIVE Chain(_, _)
Chain(b, fuel) ==
    IF b = 0 THEN << >>
    ELSE IF fuel = 0 THEN <<-1>>
    ELSE <<b>> \o Chain(Uint32(get_heap_4bytes(heap, Add32(ptr_offset, b))), fuel - 1)

\* the free list of class i
FreeList(i) == Chain(heads[i], Len(hist) + 1)

\* the pointers allocate has returned for blocks of class i
Carved(i) ==
    {hist[k].ptr : k \in {n \in 1..Len(hist) :
                            hist[n].op = "allocate" /\ hist[n].res = "ok" /\ hist[n].cls = i}}

\* the pointer of the block that starts at block offset b
PointerOf(b) == Add32(Add32(ptr_offset, b), 8)

\* pointer p was returned by allocate more often than it was released
Held(p) ==
    Cardinality({i \in 1..Len(hist) :
                   hist[i].op = "allocate" /\ hist[i].res = "ok" /\ hist[i].ptr = p})
      > Cardinality({i \in 1..Len(hist) :
                       hist[i].op = "deallocate" /\ hist[i].res = "ok" /\ hist[i].arg = p})

\* call i pushed the block of pointer hist[i].arg on the list of class hist[i].cls
Pushed(i) == hist[i].op = "deallocate" /\ hist[i].res = "ok"

\* C19: each free list reaches 0 in finitely many links, visits no block twice
\* and only blocks of its class that are not live; blocks are popped in the
\* reverse of the order in which they were pushed.
C19_FreeListsWellFormed ==
    /\ \A i \in 0..(N - 1) :
          LET c == FreeList(i)
          IN  /\ \A k \in 1..Len(c) : c[k] # -1
              /\ \A k \in 1..Len(c) : \A n \in 1..Len(c) : k # n => c[k] # c[n]
              /\ \A k \in 1..Len(c) :
                    PointerOf(c[k]) \in Carved(i) /\ ~Held(PointerOf(c[k]))
    /\ \A j \in 1..Len(hist) :
          FromList(j) =>
              \E i \in 1..(j - 1) :
                  /\ Pushed(i) /\ hist[i].arg = hist[j].ptr /\ hist[i].cls = hist[j].cls
                  /\ \A k \in (i + 1)..(j - 1) :
                        (Pushed(k) /\ hist[k].cls = hist[j].cls) =>
                            \E n \in (k + 1)..(j - 1) :
                                FromList(n) /\ hist[n].ptr = hist[k].arg

\* the smallest power of two that is >= s
LeastPow2Geq(s) ==
    CHOOSE p \in {2 ^ k : k \in 0..24} :
        p >= s /\ \A q \in {2 ^ k : k \in 0..24} : q >= s => p <= q

SizeClassDone == probe.fn = "size_class" /\ probe.done

\* C17: for every size in [0, 16 MiB] nextPowerOf2GT8(size) is 8 below 8 and the
\* smallest power of two >= size otherwise; the index TrailingZeros - 3 lies in
\* [0, 22) and get_item_size_from_index(index) = block_size = 8 * 2^index.
C17_SizeClass ==
    SizeClassDone =>
        /\ probe.item_size = (IF probe.arg < 8 THEN 8 ELSE LeastPow2Geq(probe.arg))
        /\ probe.list_index >= 0
        /\ probe.list_index < N
        /\ probe.class_size = probe.item_size
        /\ probe.item_size = 8 * (2 ^ probe.list_index)

C17_Witness ==
    /\ SizeClassDone
    /\ probe.arg = MAX_POSSIBLE_ALLOCATION
    /\ probe.list_index = N - 1

MedianDone == probe.fn = "median" /\ probe.done

\* C20: median returns an error for the empty list, the middle element of the
\* sorted list for odd length, the average of the two middle elements of the
\* sorted list for every even length >= 2, and reads no index outside the list.
C20_Median ==
    MedianDone =>
        LET m == Len(probe.arg)
            t == SortSlice(probe.arg)
        IN  /\ probe.res # "panic"
            /\ m = 0 => probe.res = "error"
            /\ (m % 2 = 1) => probe.res = "ok" /\ probe.med = At(t, m \div 2)
            /\ (m >= 2 /\ m % 2 = 0) =>
                  /\ probe.res = "ok"
                  /\ probe.med = (At(t, (m \div 2) - 1) + At(t, m \div 2)) \div 2

\* the part of C20 that holds: the empty list and the odd lengths
C20_MedianOddOrEmpty ==
    MedianDone =>
        LET m == Len(probe.arg)
        IN  /\ m = 0 => probe.res = "error"
            /\ (m % 2 = 1) =>
                  probe.res = "ok" /\ probe.med = At(SortSlice(probe.arg), m \div 2)

\* the values of C20 alone: an even list of four or more gets the average of
\* its two middle elements
C20_MedianEvenValue ==
    (MedianDone /\ Len(probe.arg) >= 4 /\ Len(probe.arg) % 2 = 0) =>
        LET m == Len(probe.arg)
            t == SortSlice(probe.arg)
        IN  probe.med = (At(t, (m \div 2) - 1) + At(t, m \div 2)) \div 2

====
